---- MODULE Spec2Model ----
(***************************************************************************)
(* Model of the yonder night-sky animation engine.                         *)
(*   src/src/lib/meteor-animation.ts   class MeteorAnimation               *)
(*   src/src/lib/utils.ts              lerp, lerpHue, lerpConfig           *)
(*                                                                         *)
(* Number representation (JavaScript numbers are modelled exactly on the   *)
(* values the model draws, as scaled integers):                            *)
(*   - numeric config fields are stored multiplied by TDen, so that every  *)
(*     blend factor t = k / TDen keeps lerp(a, b, t) an integer;           *)
(*   - time is counted in ticks of 1/3 ms, so that both the 16 ms          *)
(*     reference frame and a 1/60 s frame are whole numbers;               *)
(*   - pixel positions are stored multiplied by PosDen, the meteor life    *)
(*     in ticks (one reference frame = Ms(16) ticks);                      *)
(*   - the spawn accumulator is stored multiplied by AccOne;               *)
(*   - mouse coordinates are stored multiplied by MouseOne.                *)
(* Math.random() is a nondeterministic choice from small sets of outcomes. *)
(***************************************************************************)
EXTENDS Integers, Sequences, FiniteSets, TLC

VARIABLES
    config,            \* MeteorAnimation.config
    width, height,     \* MeteorAnimation.width / height   (pixels)
    lastTime,          \* MeteorAnimation.lastTime         (ticks)
    mouseTargetX, mouseTargetY, mouseX, mouseY,
    stars, nebulae, meteors, starTextures,
    spawnAccumulator,
    clock,             \* last timestamp the host handed to render (ticks)
    canvas,            \* what the last frame put on the drawing surface
    retired,           \* the meteors the last frame removed without drawing
    starGens,          \* number of generateStars / generateStarClusters runs
    nebulaGens,        \* number of generateNebulae runs
    textureBuilds,     \* number of generateStarTextures runs
    spawned,           \* number of spawnMeteor runs
    sizeCalls, configCalls, mouseCalls,   \* calls made so far
    activated,         \* a setSize call with nonzero width and height happened
    prevSize,          \* width and height before the last setSize call
    fnArgs, fnResult,  \* argument and result of the pure function under test
    sinceFrame,        \* the engine after the last frame, and the calls since
    host               \* the component that owns the engine: its effect and loop

vars == << config, width, height, lastTime, mouseTargetX, mouseTargetY,
           mouseX, mouseY, stars, nebulae, meteors, starTextures,
           spawnAccumulator, clock, canvas, retired, starGens, nebulaGens,
           textureBuilds, spawned, sizeCalls, configCalls, mouseCalls,
           activated, prevSize, fnArgs, fnResult, sinceFrame, host >>

\* what the model keeps beside the engine
auxVars == << fnArgs, fnResult, sinceFrame, host >>

engineVars == << config, width, height, lastTime, mouseTargetX, mouseTargetY,
           mouseX, mouseY, stars, nebulae, meteors, starTextures,
           spawnAccumulator, clock, canvas, retired, starGens, nebulaGens,
           textureBuilds, spawned, sizeCalls, configCalls, mouseCalls,
           activated, prevSize >>

----------------------------------------------------------------------------
(* Bounds of the model *)

\* blend factors are t = k / (2 * HalfSteps), k in 0 .. 2 * HalfSteps
HalfSteps == 2
\* last host timestamp, in ticks of 1/3 ms
MaxClock == 150
\* last host timestamp of a quiet-sky run (3.5 s) and of a resize run (0.4 s)
MaxQuietClock == 10500
MaxResizeClock == 1200
\* frames of the sustained-shower scenario: 10 s at 60 frames per second
ScenarioFrames == 600
\* number of setSize / updateConfig / setMouse calls in one behaviour
MaxSizeCalls == 2
MaxConfigCalls == 1
MaxMouseCalls == 1
\* setMouse / updateConfig calls between two frames, and last host
\* timestamp (48 ms), of a mailbox run
MaxEvents == 3
\* last host timestamp of a spawn-count run (0.2 s)
MaxSpawnClock == 600
\* frames of 50 ms, and setMouse calls, of a parallax run
MaxParallaxFrames == 20
MaxParallaxCalls == 2
MaxMailClock == 144

TDen == 2 * HalfSteps

Ms(n) == 3 * n

Min(a, b) == IF a < b THEN a ELSE b

\* an absent optional number (colorVariance?: number)
Undefined == -1000000

----------------------------------------------------------------------------
(* Seasons *)

getSeason(month) ==
    IF month >= 3 /\ month <= 5 THEN "spring"
    ELSE IF month >= 6 /\ month <= 8 THEN "summer"
    ELSE IF month >= 9 /\ month <= 10 THEN "fall"
    ELSE "winter"

----------------------------------------------------------------------------
(* Star field, nebulae, glyph cache *)

\* Outcomes of the random draws of generateStars + generateStarClusters.
\* brightness and depth are in percent; the last star of each population is
\* a cluster star (depth < 0.2, not prominent).
StarPopulations ==
    { << [x |-> 10, y |-> 30, brightness |-> 10, depth |-> 20, isProminent |-> FALSE],
         [x |-> 70, y |-> 40, brightness |-> 90, depth |-> 80, isProminent |-> TRUE],
         [x |-> 50, y |-> 50, brightness |-> 30, depth |-> 10, isProminent |-> FALSE] >>,
      << [x |-> 60, y |-> 35, brightness |-> 60, depth |-> 50, isProminent |-> FALSE],
         [x |-> 20, y |-> 80, brightness |-> 5, depth |-> 0, isProminent |-> FALSE],
         [x |-> 40, y |-> 20, brightness |-> 40, depth |-> 15, isProminent |-> FALSE] >> }

\* Outcomes of the random draws of generateNebulae: the number of patches
\* (2 or 3) and the position of the hue inside the season's palette (halves).
NebulaSamples == { [count |-> 2, roll |-> 0], [count |-> 3, roll |-> 1] }

NebulaHue(season, roll) ==
    IF season = "winter" THEN 220 + roll * 20
    ELSE IF season = "summer" THEN (IF roll = 0 THEN 30 ELSE 280 + roll * 15)
    ELSE IF season = "spring" THEN 160 + roll * 20
    ELSE 280 + roll * 20

generateNebulae(cfg, n) ==
    [i \in 1..n.count |-> [hue |-> NebulaHue(getSeason(cfg.peakMonth), n.roll)]]

TextureKeys ==
    { <<sizeClass, hueGroup>> : sizeClass \in {"bright", "prominent", "bloom"},
                                 hueGroup \in {"white", "warm", "cool", "yellow"} }

generateStarTextures == TextureKeys

----------------------------------------------------------------------------
(* Meteors *)

\* sub-pixel units per pixel: a meteor moves dx * speed * dt / 16ms, with
\* speed in 1/20 pixel per reference frame and dt in ticks
PosDen == Ms(16) * 20

\* the spawn accumulator reaches 1 at AccOne: rates are in 1/40 per second
AccOne == 40 * Ms(1000)

\* Math.pow(zhr / 150, 0.6), on the zhr values where it is a whole number
Pow06(zhr) == CASE zhr = 0 -> 0
                [] zhr = 150 * TDen -> 1
                [] zhr = 4800 * TDen -> 8
                [] zhr = 36450 * TDen -> 27

\* the zero-rate guard written zhr < 0 instead of zhr <= 0
VisualRateFromZero(zhr) == IF zhr < 0 THEN 0 ELSE 12 + 160 * Pow06(zhr)

\* the power term subtracted from a base rate instead of added to it
VisualRateFalling(zhr) == IF zhr <= 0 THEN 0 ELSE 4400 - 160 * Pow06(zhr)

\* visualRate in 1/40 meteors per second: 0.3 + 4.0 * pow(zhr / 150, 0.6)
VisualRate(zhr) == IF zhr <= 0 THEN 0 ELSE 12 + 160 * Pow06(zhr)

\* baseSpeed = 2 + pow(max(0, (v - 20) / 55), 1.4) * 12, where it is whole
BaseSpeed(v) == CASE v <= 20 * TDen -> 2
                  [] v = 75 * TDen -> 14

\* Outcomes of the random draws of spawnMeteor: the position in eighths of
\* the surface, the speed jitter in halves, the life in thirtieths.
MeteorSamples ==
    { [ux |-> 7, uy |-> 4, speedRoll |-> 1, lifeRoll |-> 0],
      [ux |-> 4, uy |-> 4, speedRoll |-> 1, lifeRoll |-> 0],
      [ux |-> 4, uy |-> 4, speedRoll |-> 1, lifeRoll |-> 29] }

Sign(v) == IF v < 0 THEN -1 ELSE IF v > 0 THEN 1 ELSE 0

\* hypot, on vectors along one axis
Hypot(vx, vy) == IF vy = 0 THEN vx * Sign(vx) ELSE vy * Sign(vy)

RadiantPx(cfg, w, h) ==
    << (cfg.radiantX * w * PosDen) \div TDen, (cfg.radiantY * h * PosDen) \div TDen >>

SamplePx(s, w, h) == << (s.ux * w * PosDen) \div 8, (s.uy * h * PosDen) \div 8 >>

\* cos / sin of atan2(vy, vx) are whole numbers along the axes only
AxisAligned(cfg, w, h, s) ==
    \/ SamplePx(s, w, h)[1] = RadiantPx(cfg, w, h)[1]
    \/ SamplePx(s, w, h)[2] = RadiantPx(cfg, w, h)[2]

MinDist(w, h) == (Min(w, h) * PosDen * 15) \div 100

\* a loop that stops after its first attempt
AcceptedFirst(cfg, w, h, s, attempts) ==
    LET p == SamplePx(s, w, h)
        r == RadiantPx(cfg, w, h)
    IN  \/ Hypot(p[1] - r[1], p[2] - r[2]) >= MinDist(w, h)
        \/ attempts = 1

\* the do/while loop keeps a sample that is far enough from the radiant, or
\* whatever the tenth attempt drew
Accepted(cfg, w, h, s, attempts) ==
    LET p == SamplePx(s, w, h)
        r == RadiantPx(cfg, w, h)
    IN  \/ Hypot(p[1] - r[1], p[2] - r[2]) >= MinDist(w, h)
        \/ attempts = 10

spawnMeteor(cfg, w, h, s, id) ==
    LET p == SamplePx(s, w, h)
        r == RadiantPx(cfg, w, h)
        vx == p[1] - r[1]
        vy == p[2] - r[2]
    IN  [ id |-> id,
          x |-> p[1], y |-> p[2],
          dx |-> IF vy = 0 THEN (IF vx < 0 THEN -1 ELSE 1) ELSE 0,
          dy |-> IF vy = 0 THEN 0 ELSE Sign(vy),
          speed |-> BaseSpeed(cfg.velocityKmPerSec) * (17 + 3 * s.speedRoll),
          life |-> 0,
          maxLife |-> (90 + s.lifeRoll) * Ms(16) ]

\* the body of the filter callback up to the test: move and age by one frame
Advance(m, dt) ==
    [m EXCEPT !.x = m.x + m.dx * m.speed * dt,
              !.y = m.y + m.dy * m.speed * dt,
              !.life = m.life + dt]

\* the filter test without the life test
ExpiredOffScreen(m, w, h) ==
    \/ m.x < -100 * PosDen
    \/ m.x > (w + 100) * PosDen
    \/ m.y < -100 * PosDen
    \/ m.y > (h + 100) * PosDen

\* the filter test without the off-screen test
ExpiredLife(m, w, h) == m.life > m.maxLife

\* the test of the filter callback: off screen or life expired
Expired(m, w, h) ==
    \/ m.x < -100 * PosDen
    \/ m.x > (w + 100) * PosDen
    \/ m.y < -100 * PosDen
    \/ m.y > (h + 100) * PosDen
    \/ m.life > m.maxLife

----------------------------------------------------------------------------
(* Mouse smoothing *)

MouseOne == 100 * 100

\* lerpSpeed = 1 - pow(0.92, dt / 16), in 1/MouseOne, rounded to nearest
LerpSpeed(dt) == CASE dt = 0 -> 0
                   [] dt = Ms(16) -> 800
                   [] dt = 50 -> 832
                   [] dt = Ms(32) -> 1536
                   [] dt = Ms(48) -> 2213
                   [] dt = Ms(50) -> 2294

\* the target itself added in place of the distance to it
SmoothAdditive(cur, target, dt) == cur + (target * LerpSpeed(dt)) \div MouseOne

Smooth(cur, target, dt) == cur + ((target - cur) * LerpSpeed(dt)) \div MouseOne

----------------------------------------------------------------------------------------------------------------------------------------
(* Config interpolation (utils.ts); the blend factor is t = k / TDen *)

Abs(v) == IF v < 0 THEN -v ELSE v

\* the JavaScript % operator: the remainder has the sign of the dividend
JsMod(v, n) == IF v >= 0 THEN v % n ELSE -((-v) % n)

\* TDen * (a + (b - a) * t)
lerpNum(a, b, k) == a * TDen + (b - a) * k

\* a + (b - a) * t on stored values (whole when a and b are multiples of TDen)
lerp(a, b, k) == lerpNum(a, b, k) \div TDen

\* Math.round(num / den): the nearest integer, halves towards +infinity
MathRound(num, den) == (2 * num + den) \div (2 * den)

Turn == 360 * TDen

\* lerpHue without the final wrap into [0, 360)
lerpHueNoWrap(a, b, k) ==
    LET diff == JsMod(b - a + 540 * TDen, Turn) - 180 * TDen
    IN  a + (diff * k) \div TDen

\* lerpHue on the plain difference b - a instead of the shortest arc
lerpHueLongWay(a, b, k) ==
    JsMod(JsMod(a + ((b - a) * k) \div TDen, Turn) + Turn, Turn)

\* lerpHue with one % only: a negative remainder is not brought back
lerpHueSingleMod(a, b, k) ==
    LET diff == JsMod(b - a + 540 * TDen, Turn) - 180 * TDen
    IN  JsMod(a + (diff * k) \div TDen, Turn)

\* the difference wrapped so that half a turn comes out as +180
HueDiffUpper(a, b) ==
    IF JsMod(b - a + 540 * TDen, Turn) = 0
    THEN 180 * TDen
    ELSE JsMod(b - a + 540 * TDen, Turn) - 180 * TDen

\* diff = ((b - a + 540) % 360) - 180
HueDiff(a, b) == JsMod(b - a + 540 * TDen, Turn) - 180 * TDen

lerpHue(a, b, k) ==
    LET diff == HueDiff(a, b)
    IN  JsMod(JsMod(a + (diff * k) \div TDen, Turn) + Turn, Turn)

\* the snap test written t <= 0.5
SnapInclusive(k) == 2 * k <= TDen

\* const snap = t < 0.5
Snap(k) == 2 * k < TDen

lerpConfig(configA, configB, k) ==
    LET snap == Snap(k)
    IN  [ velocityKmPerSec |-> lerp(configA.velocityKmPerSec, configB.velocityKmPerSec, k),
          zhr |-> lerp(configA.zhr, configB.zhr, k),
          radiantX |-> lerp(configA.radiantX, configB.radiantX, k),
          radiantY |-> lerp(configA.radiantY, configB.radiantY, k),
          colorHue |-> lerpHue(configA.colorHue, configB.colorHue, k),
          moonIllumination |-> lerp(configA.moonIllumination, configB.moonIllumination, k),
          moonPhaseName |-> IF snap THEN configA.moonPhaseName ELSE configB.moonPhaseName,
          parentObjectType |-> IF snap THEN configA.parentObjectType
                               ELSE configB.parentObjectType,
          velocityCategory |-> IF snap THEN configA.velocityCategory
                               ELSE configB.velocityCategory,
          peakMonth |-> MathRound(lerpNum(configA.peakMonth, configB.peakMonth, k), TDen),
          colorVariance |->
              IF configA.colorVariance # Undefined /\ configB.colorVariance # Undefined
              THEN lerp(configA.colorVariance, configB.colorVariance, k)
              ELSE IF snap THEN configA.colorVariance ELSE configB.colorVariance ]

----------------------------------------------------------------------------
(* The engine: construction and the four public methods *)

BaseConfig ==
    [ velocityKmPerSec |-> 75 * TDen, zhr |-> 150 * TDen,
      radiantX |-> 1 * TDen, radiantY |-> TDen \div 2,
      colorHue |-> 350 * TDen, moonIllumination |-> 0,
      moonPhaseName |-> "New Moon", parentObjectType |-> "comet",
      velocityCategory |-> "swift", peakMonth |-> 1,
      colorVariance |-> Undefined ]

Blank == [cleared |-> FALSE, nebulae |-> << >>, stars |-> << >>, meteors |-> << >>]

HasDefined(partial, field) ==
    field \in DOMAIN partial /\ partial[field] # Undefined

\* Object.assign(this.config, partial)
Assign(cfg, partial) ==
    [f \in DOMAIN cfg \cup DOMAIN partial |->
        IF f \in DOMAIN partial THEN partial[f] ELSE cfg[f]]

\* new MeteorAnimation(cfg)
Constructed(cfg) ==
    /\ config = cfg
    /\ width = 0 /\ height = 0 /\ lastTime = 0
    /\ mouseTargetX = MouseOne \div 2 /\ mouseTargetY = MouseOne \div 2
    /\ mouseX = MouseOne \div 2 /\ mouseY = MouseOne \div 2
    /\ stars = << >> /\ nebulae = << >> /\ meteors = << >>
    /\ starTextures = {}
    /\ spawnAccumulator = 0
    /\ clock = 0
    /\ canvas = Blank
    /\ retired = << >>
    /\ starGens = 0 /\ nebulaGens = 0 /\ textureBuilds = 0 /\ spawned = 0
    /\ sizeCalls = 0 /\ configCalls = 0 /\ mouseCalls = 0
    /\ activated = FALSE
    /\ prevSize = << 0, 0 >>

\* regeneration on a change of season instead of a change of month
NeedNebulaeOnSeason(prevMonth, partial) ==
    /\ HasDefined(partial, "peakMonth")
    /\ getSeason(partial.peakMonth) # getSeason(prevMonth)

\* the regeneration test of updateConfig
NeedNebulae(prevMonth, partial) ==
    HasDefined(partial, "peakMonth") /\ partial.peakMonth # prevMonth

updateConfig(partial, n) ==
    /\ config' = Assign(config, partial)
    /\ IF NeedNebulae(config.peakMonth, partial)
       THEN /\ nebulae' = generateNebulae(config', n)
            /\ nebulaGens' = nebulaGens + 1
       ELSE UNCHANGED << nebulae, nebulaGens >>
    /\ configCalls' = configCalls + 1
    /\ UNCHANGED << width, height, lastTime, mouseTargetX, mouseTargetY,
                    mouseX, mouseY, stars, meteors, starTextures,
                    spawnAccumulator, clock, canvas, retired, starGens,
                    textureBuilds, spawned, sizeCalls, mouseCalls, activated,
                    prevSize >>

\* setMouse that also moves the smoothed position at once
setMouseSnap(x, y) ==
    /\ mouseTargetX' = x
    /\ mouseTargetY' = y
    /\ mouseX' = x
    /\ mouseY' = y
    /\ mouseCalls' = mouseCalls + 1
    /\ UNCHANGED << config, width, height, lastTime, stars,
                    nebulae, meteors, starTextures, spawnAccumulator, clock,
                    canvas, retired, starGens, nebulaGens, textureBuilds,
                    spawned, sizeCalls, configCalls, activated, prevSize >>

\* setMouse that averages the new point into the stored target
setMouseAverage(x, y) ==
    /\ mouseTargetX' = (mouseTargetX + x) \div 2
    /\ mouseTargetY' = (mouseTargetY + y) \div 2
    /\ mouseCalls' = mouseCalls + 1
    /\ UNCHANGED << config, width, height, lastTime, mouseX, mouseY, stars,
                    nebulae, meteors, starTextures, spawnAccumulator, clock,
                    canvas, retired, starGens, nebulaGens, textureBuilds,
                    spawned, sizeCalls, configCalls, activated, prevSize >>

setMouse(x, y) ==
    /\ mouseTargetX' = x
    /\ mouseTargetY' = y
    /\ mouseCalls' = mouseCalls + 1
    /\ UNCHANGED << config, width, height, lastTime, mouseX, mouseY, stars,
                    nebulae, meteors, starTextures, spawnAccumulator, clock,
                    canvas, retired, starGens, nebulaGens, textureBuilds,
                    spawned, sizeCalls, configCalls, activated, prevSize >>

\* generation on every call instead of the first one
NeedStarsAlways(w, h) == TRUE

\* the generation test of setSize, on the size before the call
NeedStars(w, h) == w = 0 /\ h = 0

setSize(w, h, population, n) ==
    /\ width' = w
    /\ height' = h
    /\ IF NeedStars(width, height)
       THEN /\ stars' = population
            /\ nebulae' = generateNebulae(config, n)
            /\ starGens' = starGens + 1
            /\ nebulaGens' = nebulaGens + 1
       ELSE UNCHANGED << stars, nebulae, starGens, nebulaGens >>
    /\ starTextures' = generateStarTextures
    /\ textureBuilds' = textureBuilds + 1
    /\ sizeCalls' = sizeCalls + 1
    /\ activated' = (activated \/ (w # 0 /\ h # 0))
    /\ prevSize' = << width, height >>
    /\ UNCHANGED << config, lastTime, mouseTargetX, mouseTargetY, mouseX,
                    mouseY, meteors, spawnAccumulator, clock, canvas, retired,
                    spawned, configCalls, mouseCalls >>

\* dt of a frame at timestamp ts, in ticks
FrameDt(ts) == IF lastTime = 0 THEN Ms(16) ELSE Min(ts - lastTime, Ms(50))

\* an if in place of the while: one spawn per frame at most
SpawnCountOnce(acc) == IF acc >= AccOne THEN 1 ELSE 0

\* the accumulator drained to the nearest whole number instead of below 1
SpawnCountNearest(acc) ==
    IF acc >= AccOne THEN (2 * acc + AccOne) \div (2 * AccOne) ELSE 0

\* number of iterations of the spawn loop for an accumulator value
SpawnCount(acc) == IF acc >= AccOne THEN acc \div AccOne ELSE 0

\* the filter result thrown away: every meteor moved, aged and kept
SurvivorsUnfiltered(ms, dt, w, h) ==
    [i \in 1..Len(ms) |-> Advance(ms[i], dt)]

\* the meteors the filter keeps, each moved, aged and drawn
Survivors(ms, dt, w, h) ==
    LET moved == [i \in 1..Len(ms) |-> Advance(ms[i], dt)]
        Keep(m) == ~Expired(m, w, h)
    IN  SelectSeq(moved, Keep)

\* the meteors the filter drops, after their move
Dropped(ms, dt, w, h) ==
    LET moved == [i \in 1..Len(ms) |-> Advance(ms[i], dt)]
        Drop(m) == Expired(m, w, h)
    IN  SelectSeq(moved, Drop)

\* render(ctx, ts); rnd are the random draws of the spawnMeteor calls
render(ts, rnd) ==
    /\ clock' = ts
    /\ IF width = 0 \/ height = 0
       THEN UNCHANGED << lastTime, mouseX, mouseY, canvas, retired,
                         spawnAccumulator, meteors, spawned >>
       ELSE LET dt == FrameDt(ts)
                acc == spawnAccumulator + VisualRate(config.zhr) * dt
                count == SpawnCount(acc)
                born == [i \in 1..count |->
                            spawnMeteor(config, width, height, rnd[i], spawned + i)]
                kept == Survivors(meteors \o born, dt, width, height)
            IN  /\ lastTime' = ts
                /\ mouseX' = Smooth(mouseX, mouseTargetX, dt)
                /\ mouseY' = Smooth(mouseY, mouseTargetY, dt)
                /\ spawnAccumulator' = acc - count * AccOne
                /\ spawned' = spawned + count
                /\ meteors' = kept
                /\ retired' = Dropped(meteors \o born, dt, width, height)
                /\ canvas' = [cleared |-> TRUE, nebulae |-> nebulae,
                              stars |-> stars, meteors |-> kept]
    /\ UNCHANGED << config, width, height, mouseTargetX, mouseTargetY, stars,
                    nebulae, starTextures, starGens, nebulaGens,
                    textureBuilds, sizeCalls, configCalls, mouseCalls,
                    activated, prevSize >>

\* the random draws the spawn loop of a frame at ts can make, out of samples
Draws(ts, samples) ==
    LET count == IF width = 0 \/ height = 0 THEN 0
                 ELSE SpawnCount(spawnAccumulator
                                 + VisualRate(config.zhr) * FrameDt(ts))
    IN  [1..count -> { s \in samples :
                          /\ AxisAligned(config, width, height, s)
                          /\ \E attempts \in 1..10 :
                                Accepted(config, width, height, s, attempts) }]

----------------------------------------------------------------------------
(* Spec: the engine under arbitrary calls of its host, over a few frames *)

\* configs handed to the constructor
InitConfigs ==
    { [BaseConfig EXCEPT !.zhr = z] : z \in {0, 4800 * TDen} }

\* arguments of updateConfig
Partials ==
    { [peakMonth |-> 1], [peakMonth |-> 2], [peakMonth |-> 3],
      [zhr |-> 150 * TDen] }

\* arguments of setSize
Sizes == { <<0, 0>>, <<400, 400>>, <<200, 400>> }

\* arguments of setMouse
MousePoints == { <<0, MouseOne>> }

\* time between two frame callbacks: 16 ms, 50 ms
Deltas == { Ms(16), Ms(50) }

Init ==
    /\ \E cfg \in InitConfigs : Constructed(cfg)
    /\ fnArgs = << >> /\ fnResult = << >> /\ sinceFrame = << >> /\ host = << >>

SetSize ==
    /\ sizeCalls < MaxSizeCalls
    /\ \E size \in Sizes, population \in StarPopulations, n \in NebulaSamples :
          setSize(size[1], size[2], population, n)
    /\ UNCHANGED auxVars

UpdateConfig ==
    /\ configCalls < MaxConfigCalls
    /\ \E partial \in Partials, n \in NebulaSamples : updateConfig(partial, n)
    /\ UNCHANGED auxVars

SetMouse ==
    /\ mouseCalls < MaxMouseCalls
    /\ \E p \in MousePoints : setMouse(p[1], p[2])
    /\ UNCHANGED auxVars

Render ==
    /\ \E d \in Deltas :
          /\ clock + d <= MaxClock
          /\ \E rnd \in Draws(clock + d, MeteorSamples) : render(clock + d, rnd)
    /\ UNCHANGED auxVars

Next == SetSize \/ UpdateConfig \/ SetMouse \/ Render

Spec == Init /\ [][Next]_vars

----------------------------------------------------------------------------
(* Claims about the engine life cycle, checked under Spec *)

\* C1: the bulk generation of stars, clusters and nebulae happens exactly
\* once, at the first setSize call whose width and height are both nonzero:
\* a step generates stars if and only if it is that call.
C1_GenerationOnce ==
    [][ (starGens' # starGens)
        <=> (sizeCalls' # sizeCalls /\ width' # 0 /\ height' # 0 /\ ~activated) ]_vars

C3_SameSizeKeepsStars ==
    [][ (sizeCalls' # sizeCalls)
        => /\ textureBuilds' = textureBuilds + 1
           /\ starTextures' = TextureKeys
           /\ (width # 0 /\ height # 0 /\ width' = width /\ height' = height)
                => /\ stars' = stars /\ starGens' = starGens
                   /\ nebulae' = nebulae /\ nebulaGens' = nebulaGens ]_vars

\* setSize was called twice in a row with the same nonzero size
C3_Witness ==
    /\ sizeCalls = 2 /\ textureBuilds = 2
    /\ width # 0 /\ height # 0 /\ prevSize = << width, height >>
    /\ starGens = 1 /\ stars # << >>

\* C4: as long as no setSize call was made, updateConfig, setMouse and render
\* calls generate nothing and draw nothing: stars and nebulae stay empty, no
\* meteor is spawned, the surface is untouched, the time baseline is not set.
C4_UninitializedIdle ==
    (sizeCalls = 0)
        => /\ stars = << >> /\ nebulae = << >>
           /\ meteors = << >> /\ spawned = 0
           /\ canvas = Blank /\ lastTime = 0

----------------------------------------------------------------------------
(* SpecQuiet: an engine whose zhr is never positive, rendered for seconds *)

QuietConfigs == { [BaseConfig EXCEPT !.zhr = z] : z \in {0, -5 * TDen} }

QuietPartials == { [zhr |-> 0], [zhr |-> -5 * TDen], [peakMonth |-> 6] }

InitQuiet ==
    /\ \E cfg \in QuietConfigs : Constructed(cfg)
    /\ fnArgs = << >> /\ fnResult = << >> /\ sinceFrame = << >> /\ host = << >>

QuietSetSize ==
    /\ sizeCalls < MaxSizeCalls
    /\ \E population \in StarPopulations, n \in NebulaSamples :
          setSize(400, 400, population, n)
    /\ UNCHANGED auxVars

QuietUpdateConfig ==
    /\ configCalls < MaxConfigCalls
    /\ \E partial \in QuietPartials, n \in NebulaSamples : updateConfig(partial, n)
    /\ UNCHANGED auxVars

QuietFrame ==
    /\ clock + Ms(50) <= MaxQuietClock
    /\ \E rnd \in Draws(clock + Ms(50), MeteorSamples) : render(clock + Ms(50), rnd)
    /\ UNCHANGED auxVars

NextQuiet == QuietSetSize \/ QuietUpdateConfig \/ QuietFrame

SpecQuiet == InitQuiet /\ [][NextQuiet]_vars

\* C5: with zhr <= 0 from construction onwards no meteor is ever spawned and
\* no meteor is live or drawn, whatever the number of frames.
C5_QuietSky ==
    (config.zhr <= 0)
        => /\ spawned = 0 /\ meteors = << >>
           /\ canvas.meteors = << >> /\ retired = << >>

\* three seconds of frames were rendered with zhr = 0
C5_Witness ==
    /\ config.zhr = 0 /\ canvas.cleared
    /\ lastTime >= Ms(3400)

----------------------------------------------------------------------------
(* SpecShower: zhr 150, new moon, swift, comet, one frame every 1/60 s *)

ShowerConfigs ==
    { [BaseConfig EXCEPT !.velocityKmPerSec = v] : v \in {20 * TDen, 75 * TDen} }

ShowerSamples ==
    { [ux |-> 4, uy |-> 4, speedRoll |-> 1, lifeRoll |-> 0],
      [ux |-> 4, uy |-> 4, speedRoll |-> 1, lifeRoll |-> 29] }

InitShower ==
    /\ \E cfg \in ShowerConfigs : Constructed(cfg)
    /\ fnArgs = << >> /\ fnResult = << >> /\ sinceFrame = << >> /\ host = << >>

\* the scenario does not depend on the stars: one outcome of their draws
ShowerSetSize ==
    /\ sizeCalls = 0
    /\ \E population \in { p \in StarPopulations : p[1].x = 10 },
          n \in { n \in NebulaSamples : n.count = 2 } :
          setSize(400, 400, population, n)
    /\ UNCHANGED auxVars

\* 1/60 s is 50 ticks
ShowerFrame ==
    /\ activated
    /\ clock < ScenarioFrames * 50
    /\ \E rnd \in Draws(clock + 50, ShowerSamples) : render(clock + 50, rnd)
    /\ UNCHANGED auxVars

NextShower == ShowerSetSize \/ ShowerFrame

SpecShower == InitShower /\ [][NextShower]_vars

Ids(ms) == { ms[i].id : i \in 1..Len(ms) }

\* C6: no meteor is drawn with life > maxLife: every meteor a frame draws has
\* life <= maxLife after that frame's increment, and a meteor the frame
\* removed is neither drawn nor kept for a later frame.
C6_NeverDrawnExpired ==
    /\ \A i \in 1..Len(canvas.meteors) :
          canvas.meteors[i].life <= canvas.meteors[i].maxLife
    /\ Ids(canvas.meteors) = Ids(meteors)
    /\ Ids(retired) \cap Ids(meteors) = {}

\* a frame removed a meteor that is on the surface but older than maxLife
C6_Witness ==
    \E i \in 1..Len(retired) :
        /\ retired[i].life > retired[i].maxLife
        /\ ~ExpiredOffScreen(retired[i], width, height)

\* C8: in the sustained scenario the number of live meteors is nonzero at the
\* frame where the accumulator first reaches 1 (frame 14) and never exceeds
\* nine, however long the run lasts.
C8_NonzeroBounded ==
    /\ Len(meteors) <= 9
    /\ (clock = 14 * 50) => Len(meteors) >= 1
    /\ (clock >= 14 * 50) => spawned >= 1

\* the scenario ran its 600 frames, spawning and retiring meteors
C8_Witness ==
    /\ clock = 600 * 50
    /\ spawned >= 40
    /\ Len(meteors) >= 1

----------------------------------------------------------------------------
(* SpecResize: a shower on a surface that the host resizes *)

ResizeSizes == { <<400, 200>>, <<200, 200>>, <<100, 200>>, <<0, 200>> }

InitResize ==
    /\ Constructed(BaseConfig)
    /\ fnArgs = << >> /\ fnResult = << >> /\ sinceFrame = << >> /\ host = << >>

ResizeSetSize ==
    /\ sizeCalls < MaxSizeCalls
    /\ \E size \in ResizeSizes, population \in StarPopulations, n \in NebulaSamples :
          setSize(size[1], size[2], population, n)
    /\ UNCHANGED auxVars

ResizeFrame ==
    /\ clock + Ms(50) <= MaxResizeClock
    /\ \E rnd \in Draws(clock + Ms(50), MeteorSamples) : render(clock + Ms(50), rnd)
    /\ UNCHANGED auxVars

NextResize == ResizeSetSize \/ ResizeFrame

SpecResize == InitResize /\ [][NextResize]_vars

\* more than 100 pixels outside a w x h surface on some side
Outside(m, w, h) == ExpiredOffScreen(m, w, h)

----------------------------------------------------------------------------
(* SpecLerp: lerpHue and lerpConfig applied to drawn arguments *)

\* hues in [0, 360)
HueSamples == { h * TDen : h \in {0, 10, 30, 90, 170, 180, 190, 270, 350} }

\* configs with every field in its stated range
ConfigSamples ==
    { BaseConfig,
      [ velocityKmPerSec |-> 20 * TDen, zhr |-> 0,
        radiantX |-> 0, radiantY |-> TDen,
        colorHue |-> 30 * TDen, moonIllumination |-> 100 * TDen,
        moonPhaseName |-> "Full Moon", parentObjectType |-> "asteroid",
        velocityCategory |-> "slow", peakMonth |-> 7,
        colorVariance |-> 90 * TDen ],
      [ velocityKmPerSec |-> 41 * TDen, zhr |-> 120 * TDen,
        radiantX |-> TDen \div 2, radiantY |-> 0,
        colorHue |-> 170 * TDen, moonIllumination |-> 45 * TDen,
        moonPhaseName |-> "Waxing Gibbous", parentObjectType |-> "asteroid",
        velocityCategory |-> "medium", peakMonth |-> 12,
        colorVariance |-> 120 * TDen ],
      [ velocityKmPerSec |-> 66 * TDen, zhr |-> 15 * TDen,
        radiantX |-> TDen \div 2, radiantY |-> TDen \div 2,
        colorHue |-> 0, moonIllumination |-> 0,
        moonPhaseName |-> "New Moon", parentObjectType |-> "comet",
        velocityCategory |-> "swift", peakMonth |-> 2,
        colorVariance |-> Undefined ] }

InitLerp ==
    /\ Constructed(BaseConfig)
    /\ fnResult = << >> /\ sinceFrame = << >> /\ host = << >>
    /\ \/ \E a \in HueSamples, b \in HueSamples, k \in 0..TDen :
             fnArgs = [fn |-> "lerpHue", a |-> a, b |-> b, k |-> k]
       \/ \E a \in ConfigSamples, b \in ConfigSamples, k \in 0..TDen :
             fnArgs = [fn |-> "lerpConfig", a |-> a, b |-> b, k |-> k]

ApplyLerpHue ==
    /\ fnResult = << >>
    /\ fnArgs.fn = "lerpHue"
    /\ fnResult' = << lerpHue(fnArgs.a, fnArgs.b, fnArgs.k) >>
    /\ UNCHANGED << engineVars, fnArgs, sinceFrame, host >>

ApplyLerpConfig ==
    /\ fnResult = << >>
    /\ fnArgs.fn = "lerpConfig"
    /\ fnResult' = << lerpConfig(fnArgs.a, fnArgs.b, fnArgs.k) >>
    /\ UNCHANGED << engineVars, fnArgs, sinceFrame, host >>

NextLerp == ApplyLerpHue \/ ApplyLerpConfig

SpecLerp == InitLerp /\ [][NextLerp]_vars

\* C9: lerpConfig(cfg, cfg, t) = cfg for every t, lerpConfig(a, b, 0) = a and
\* lerpConfig(a, b, 1) = b, field by field.
C9_InterpolationIdentity ==
    (fnResult # << >> /\ fnArgs.fn = "lerpConfig")
        => /\ (fnArgs.a = fnArgs.b) => fnResult[1] = fnArgs.a
           /\ (fnArgs.k = 0) => fnResult[1] = fnArgs.a
           /\ (fnArgs.k = TDen) => fnResult[1] = fnArgs.b

\* lerpConfig at t = 1 from a config with hue 350 and no colorVariance to one
\* with hue 30 and a colorVariance returned the second config
C9_Witness ==
    /\ fnResult # << >> /\ fnArgs.fn = "lerpConfig"
    /\ fnArgs.k = TDen
    /\ fnArgs.a.colorHue = 350 * TDen /\ fnArgs.a.colorVariance = Undefined
    /\ fnArgs.b.colorHue = 30 * TDen /\ fnArgs.b.colorVariance = 90 * TDen
    /\ fnResult[1] = fnArgs.b

\* distance between two hues around the colour wheel
CircDist(x, y) == Min(Abs(x - y) % Turn, Turn - (Abs(x - y) % Turn))

\* C10: lerpHue(a, b, t) is a hue in [0, 360) on the shorter arc between a
\* and b: its circular distance from a is t times, and from b (1 - t) times,
\* the shorter circular distance between a and b; lerpHue(350, 30, 0.5) = 10.
C10_ShorterArc ==
    (fnResult # << >> /\ fnArgs.fn = "lerpHue")
        => /\ fnResult[1] >= 0 /\ fnResult[1] < Turn
           /\ CircDist(fnResult[1], fnArgs.a) * TDen
                 = fnArgs.k * CircDist(fnArgs.a, fnArgs.b)
           /\ CircDist(fnResult[1], fnArgs.b) * TDen
                 = (TDen - fnArgs.k) * CircDist(fnArgs.a, fnArgs.b)
           /\ (fnArgs.a = 350 * TDen /\ fnArgs.b = 30 * TDen /\ 2 * fnArgs.k = TDen)
                 => fnResult[1] = 10 * TDen

\* lerpHue(350, 30, 0.5) returned 10
C10_Witness ==
    /\ fnResult = << 10 * TDen >> /\ fnArgs.fn = "lerpHue"
    /\ fnArgs.a = 350 * TDen /\ fnArgs.b = 30 * TDen /\ 2 * fnArgs.k = TDen

\* the numeric fields of a config that lerpConfig blends linearly
LinearFields ==
    { "velocityKmPerSec", "zhr", "radiantX", "radiantY", "moonIllumination" }

Between(v, a, b) == (a <= v /\ v <= b) \/ (b <= v /\ v <= a)

\* the stated ranges of the numeric fields of a config
InRange(cfg) ==
    /\ cfg.zhr >= 0
    /\ cfg.radiantX >= 0 /\ cfg.radiantX <= TDen
    /\ cfg.radiantY >= 0 /\ cfg.radiantY <= TDen
    /\ cfg.colorHue >= 0 /\ cfg.colorHue < Turn
    /\ cfg.moonIllumination >= 0 /\ cfg.moonIllumination <= 100 * TDen
    /\ cfg.peakMonth \in 1..12

\* C11: for configs a and b in range and t in [0, 1], lerpConfig(a, b, t) is
\* in range: every linearly blended field lies between the two inputs,
\* colorHue is in [0, 360) and peakMonth is an integer in 1..12.
C11_BlendStaysInRange ==
    (fnResult # << >> /\ fnArgs.fn = "lerpConfig"
       /\ InRange(fnArgs.a) /\ InRange(fnArgs.b))
        => /\ InRange(fnResult[1])
           /\ \A f \in LinearFields :
                 Between(fnResult[1][f], fnArgs.a[f], fnArgs.b[f])
           /\ Between(fnResult[1].peakMonth, fnArgs.a.peakMonth, fnArgs.b.peakMonth)
           /\ (fnArgs.a.colorVariance # Undefined /\ fnArgs.b.colorVariance # Undefined)
                 => Between(fnResult[1].colorVariance,
                            fnArgs.a.colorVariance, fnArgs.b.colorVariance)

\* a blend strictly inside (0, 1) whose hue went through 0 (from 0 towards
\* 350) and whose peakMonth was rounded (from 1 towards 2)
C11_Witness ==
    /\ fnResult # << >> /\ fnArgs.fn = "lerpConfig"
    /\ fnArgs.k > 0 /\ fnArgs.k < TDen
    /\ fnArgs.a.colorHue = 0 /\ fnArgs.b.colorHue = 350 * TDen
    /\ fnResult[1].colorHue > 350 * TDen /\ fnResult[1].colorHue < Turn
    /\ fnArgs.a.peakMonth = 2 /\ fnArgs.b.peakMonth = 1
    /\ fnResult[1].peakMonth \in 1..2

\* the fields of a config that cannot be blended
SnapFields == { "moonPhaseName", "parentObjectType", "velocityCategory" }

\* C12: moonPhaseName, parentObjectType and velocityCategory of
\* lerpConfig(a, b, t) are a's when t < 0.5 and b's when t >= 0.5;
\* colorVariance is the linear blend when a and b both define it, and
\* otherwise follows the same snap (absent exactly when the snapped-to config
\* has none).
C12_SnapAtHalf ==
    (fnResult # << >> /\ fnArgs.fn = "lerpConfig")
        => LET src == IF 2 * fnArgs.k < TDen THEN fnArgs.a ELSE fnArgs.b
               va == fnArgs.a.colorVariance
               vb == fnArgs.b.colorVariance
           IN  /\ \A f \in SnapFields : fnResult[1][f] = src[f]
               /\ IF va # Undefined /\ vb # Undefined
                  THEN fnResult[1].colorVariance * TDen
                          = va * TDen + (vb - va) * fnArgs.k
                  ELSE /\ fnResult[1].colorVariance = src.colorVariance
                       /\ (fnResult[1].colorVariance = Undefined)
                             <=> (src.colorVariance = Undefined)

\* lerpConfig at t = 0.5 exactly, from a comet config without colorVariance
\* to an asteroid config with one, returned the asteroid's values
C12_Witness ==
    /\ fnResult # << >> /\ fnArgs.fn = "lerpConfig"
    /\ 2 * fnArgs.k = TDen
    /\ fnArgs.a.parentObjectType = "comet" /\ fnArgs.a.colorVariance = Undefined
    /\ fnArgs.b.parentObjectType = "asteroid" /\ fnArgs.b.colorVariance = 90 * TDen
    /\ fnResult[1].parentObjectType = "asteroid"
    /\ fnResult[1].colorVariance = 90 * TDen

----------------------------------------------------------------------------
(* Claims about frames, checked under Spec *)

\* C13: the first render call on a sized engine only sets the time baseline
\* and counts as zero elapsed time: it advances no meteor, adds nothing to
\* the spawn accumulator, spawns no meteor and leaves the smoothed mouse
\* position where it is.
C13_FirstRenderZeroElapsed ==
    [][ (clock' # clock /\ width # 0 /\ height # 0 /\ ~canvas.cleared)
        => /\ lastTime' = clock'
           /\ spawnAccumulator' = spawnAccumulator
           /\ spawned' = spawned
           /\ meteors' = meteors
           /\ mouseX' = mouseX /\ mouseY' = mouseY ]_vars

----------------------------------------------------------------------------
(* SpecMailbox: setMouse and updateConfig calls interleaved between frames *)

\* the fields of the engine that a frame reads
Snapshot ==
    [ config |-> config, nebulae |-> nebulae, nebulaGens |-> nebulaGens,
      mouseX |-> mouseX, mouseY |-> mouseY,
      mouseTargetX |-> mouseTargetX, mouseTargetY |-> mouseTargetY,
      lastTime |-> lastTime, spawnAccumulator |-> spawnAccumulator,
      spawned |-> spawned, meteors |-> meteors ]

\* the partial {} 
EmptyPartial == [f \in {} |-> 0]

\* nothing called since the frame that just ended; gap counts its calls
FrameEnded(base, gap) ==
    [ base |-> base, mouse |-> << >>, merged |-> EmptyPartial,
      mouseEvents |-> 0, configEvents |-> 0, prevGap |-> gap ]

MailPoints == { <<0, MouseOne>>, <<MouseOne, 0>> }

MailPartials ==
    { [peakMonth |-> 1], [peakMonth |-> 2],
      [zhr |-> 4800 * TDen], [zhr |-> 150 * TDen] }

InitMail ==
    /\ Constructed(BaseConfig)
    /\ fnArgs = << >> /\ fnResult = << >>
    /\ sinceFrame = FrameEnded(Snapshot, [mouse |-> 0, config |-> 0])
    /\ host = << >>

\* the stars play no part here: one outcome of their draws
MailSetSize ==
    /\ sizeCalls = 0
    /\ \E population \in { p \in StarPopulations : p[1].x = 10 },
          n \in NebulaSamples :
          setSize(400, 400, population, n)
    /\ sinceFrame' = FrameEnded(Snapshot', [mouse |-> 0, config |-> 0])
    /\ UNCHANGED << fnArgs, fnResult, host >>

\* a call made after a frame and before another one
MailSetMouse ==
    /\ lastTime > 0 /\ clock + Ms(16) <= MaxMailClock
    /\ sinceFrame.mouseEvents + sinceFrame.configEvents < MaxEvents
    /\ \E p \in MailPoints :
          /\ setMouse(p[1], p[2])
          /\ sinceFrame' = [sinceFrame EXCEPT !.mouse = p, !.mouseEvents = @ + 1]
    /\ UNCHANGED << fnArgs, fnResult, host >>

MailUpdateConfig ==
    /\ lastTime > 0 /\ clock + Ms(16) <= MaxMailClock
    /\ sinceFrame.mouseEvents + sinceFrame.configEvents < MaxEvents
    /\ \E partial \in MailPartials, n \in NebulaSamples :
          /\ updateConfig(partial, n)
          /\ sinceFrame' = [sinceFrame EXCEPT !.merged = Assign(@, partial),
                                              !.configEvents = @ + 1]
    /\ UNCHANGED << fnArgs, fnResult, host >>

MailFrame ==
    /\ activated
    /\ clock + Ms(16) <= MaxMailClock
    /\ \E rnd \in Draws(clock + Ms(16), MeteorSamples) : render(clock + Ms(16), rnd)
    /\ sinceFrame' = FrameEnded(Snapshot', [mouse |-> sinceFrame.mouseEvents,
                                            config |-> sinceFrame.configEvents])
    /\ UNCHANGED << fnArgs, fnResult, host >>

NextMail == MailSetSize \/ MailSetMouse \/ MailUpdateConfig \/ MailFrame

SpecMailbox == InitMail /\ [][NextMail]_vars

\* C14: setMouse(x, y) stores x and y as the mouse target and changes nothing
\* else: the smoothed mouse position, the config, the stars, the nebulae, the
\* meteors, the spawn accumulator, the time baseline and the drawing surface
\* are as before the call.
C14_SetMouseFrame ==
    [][ (mouseCalls' # mouseCalls)
        => /\ << mouseTargetX', mouseTargetY' >> \in MailPoints
           /\ UNCHANGED << mouseX, mouseY, config, stars, nebulae, meteors,
                           spawnAccumulator, lastTime, width, height,
                           starTextures, canvas, retired, spawned >> ]_vars

\* setMouse moved the target on an engine that had rendered frames; the
\* smoothed position is still the initial one
C14_Witness ==
    /\ mouseCalls = 1 /\ lastTime > 0 /\ spawnAccumulator > 0
    /\ mouseTargetX = 0 /\ mouseTargetY = MouseOne
    /\ mouseX = MouseOne \div 2 /\ mouseY = MouseOne \div 2

\* what a frame at ts makes of the engine b left by the previous frame, the
\* mouse target tgt and the config cfg, whatever was called in between
FrameOf(b, tgt, cfg, ts) ==
    LET dt == IF b.lastTime = 0 THEN Ms(16) ELSE Min(ts - b.lastTime, Ms(50))
    IN  /\ config' = cfg
        /\ lastTime' = ts
        /\ mouseX' = Smooth(b.mouseX, tgt[1], dt)
        /\ mouseY' = Smooth(b.mouseY, tgt[2], dt)
        /\ spawnAccumulator' + AccOne * (spawned' - b.spawned)
              = b.spawnAccumulator + VisualRate(cfg.zhr) * dt

\* the mouse target a frame reads: the last setMouse since the previous frame
LastTarget ==
    IF sinceFrame.mouse = << >>
    THEN << sinceFrame.base.mouseTargetX, sinceFrame.base.mouseTargetY >>
    ELSE sinceFrame.mouse

\* C15 as stated: the state after a render depends only on the state after
\* the previous render, on the last setMouse and on the merged result of the
\* updateConfig calls made in between (nebulae included: kept when the merged
\* partial leaves peakMonth as it was, regenerated for it otherwise).
C15_OneSlotMailbox ==
    [][ (clock' # clock /\ activated)
        => LET b == sinceFrame.base
               cfg == Assign(b.config, sinceFrame.merged)
           IN  /\ FrameOf(b, LastTarget, cfg, clock')
               /\ IF NeedNebulae(b.config.peakMonth, sinceFrame.merged)
                  THEN \E n \in NebulaSamples :
                          canvas'.nebulae = generateNebulae(cfg, n)
                  ELSE canvas'.nebulae = b.nebulae ]_vars

\* C15 amended: the state after a render depends only on the state after the
\* previous render, on the last setMouse and on the config and the nebulae
\* the updateConfig calls left: the config is the merge of the partials, the
\* nebulae are the old ones if no call changed peakMonth and otherwise those
\* of the last regeneration (also when peakMonth came back to its old value);
\* the number and the values of the earlier setMouse calls play no part.
C15_MouseMailbox ==
    [][ (clock' # clock /\ activated)
        => LET b == sinceFrame.base
               cfg == Assign(b.config, sinceFrame.merged)
           IN  /\ FrameOf(b, LastTarget, cfg, clock')
               /\ IF nebulaGens # b.nebulaGens
                  THEN \E n \in NebulaSamples :
                          canvas'.nebulae = generateNebulae(cfg, n)
                  ELSE canvas'.nebulae = b.nebulae ]_vars

\* a frame after the first one ended; two setMouse calls and an updateConfig
\* call came between it and the frame before, and it moved the smoothed
\* mouse position
C15_Witness ==
    /\ lastTime >= Ms(32)
    /\ sinceFrame.prevGap.mouse >= 2 /\ sinceFrame.prevGap.config >= 1
    /\ sinceFrame.mouseEvents = 0 /\ sinceFrame.configEvents = 0
    /\ mouseX # MouseOne \div 2

----------------------------------------------------------------------------
(* Drawing: the alpha of a star and of a meteor (drawStars, drawMeteor) *)

\* get moonFraction: moonIllumination / 100, times 100 * TDen
moonFraction(moonIllumination) == moonIllumination

\* starDimming = 1 - mf * 0.6, times 1000 * TDen
StarDimming(moonIllumination) == 1000 * TDen - 6 * moonFraction(moonIllumination)

\* alphas are stored multiplied by AlphaOne
AlphaOne == 100 * 20 * 1000 * TDen

\* baseAlpha of a star of the given brightness (percent) when the twinkle
\* wave is wave / 2, times 100 * 20: blinkers swing between 0.1 and 1.0 of
\* their brightness, the others between 0.6 and 1.0
BaseAlpha(star, wave) ==
    star.brightness * (IF star.isBlinker THEN 2 + 9 * wave ELSE 12 + 4 * wave)

\* alpha = baseAlpha * starDimming
StarAlpha(star, wave, moonIllumination) ==
    BaseAlpha(star, wave) * StarDimming(moonIllumination)

\* if (alpha < 0.02) continue
StarDrawn(star, wave, moonIllumination) ==
    ~(50 * StarAlpha(star, wave, moonIllumination) < AlphaOne)

\* meteor alphas are stored multiplied by 100 * 5 frames * 2 * maxLife
MeteorAlphaOne(m) == 100 * (5 * Ms(16)) * (2 * m.maxLife)

\* the alpha of the head of the trail: min(opacity * fadeIn * fadeOut, 1);
\* opacity in percent, life and maxLife in ticks; the moon plays no part
MeteorAlpha(m, moonIllumination) ==
    LET fadeIn == Min(m.life, 5 * Ms(16))
        fadeOut == IF 5 * m.life > 3 * m.maxLife
                   THEN 5 * m.maxLife - 5 * m.life
                   ELSE 2 * m.maxLife
    IN  Min(m.opacity * fadeIn * fadeOut, MeteorAlphaOne(m))

----------------------------------------------------------------------------
(* SpecIntensity: the intensity inputs (zhr, moonIllumination, t), in and   *)
(* out of their ranges, handed to the code that uses them                   *)

Clamp(v, lo, hi) == IF v < lo THEN lo ELSE IF v > hi THEN hi ELSE v

\* zhr: below 0, 0, and positive values
ZhrSamples == { -5 * TDen, 0, 150 * TDen, 4800 * TDen, 36450 * TDen }

\* moonIllumination: below 0, in [0, 100], above 100
MoonSamples == { m * TDen : m \in {-50, 0, 50, 100, 150} }

\* blend factors k / TDen from -0.5 to 1.5
BlendSamples == (0 - HalfSteps) .. (TDen + HalfSteps)

\* stars: brightness in percent (createStar draws it in [0.05, 1))
StarSamples ==
    { [brightness |-> b, isBlinker |-> bl] : b \in {5, 30, 90}, bl \in BOOLEAN }

\* twinkle wave 0.5 + 0.5 * sin(..), in halves
WaveSamples == 0..2

\* live meteors: opacity in percent, maxLife 90 frames, at several ages
MeteorDrawSamples ==
    { [opacity |-> o, life |-> f * Ms(16), maxLife |-> 90 * Ms(16)] :
         o \in {30, 100}, f \in {0, 2, 5, 54, 72, 90} }

InitIntensity ==
    /\ Constructed(BaseConfig)
    /\ fnResult = << >> /\ sinceFrame = << >> /\ host = << >>
    /\ \/ \E a \in ConfigSamples, b \in ConfigSamples, k \in BlendSamples :
             fnArgs = [fn |-> "lerpConfig", a |-> a, b |-> b, k |-> k]
       \/ \E z \in ZhrSamples : fnArgs = [fn |-> "visualRate", zhr |-> z]
       \/ \E st \in StarSamples, w \in WaveSamples, mi \in MoonSamples :
             fnArgs = [fn |-> "drawStars", star |-> st, wave |-> w, moon |-> mi]
       \/ \E m \in MeteorDrawSamples, mi \in MoonSamples :
             fnArgs = [fn |-> "drawMeteor", meteor |-> m, moon |-> mi]

BlendConfigs ==
    /\ fnResult = << >>
    /\ fnArgs.fn = "lerpConfig"
    /\ fnResult' = << lerpConfig(fnArgs.a, fnArgs.b, fnArgs.k) >>
    /\ UNCHANGED << engineVars, fnArgs, sinceFrame, host >>

ComputeVisualRate ==
    /\ fnResult = << >>
    /\ fnArgs.fn = "visualRate"
    /\ fnResult' = << VisualRate(fnArgs.zhr) >>
    /\ UNCHANGED << engineVars, fnArgs, sinceFrame, host >>

DrawStar ==
    /\ fnResult = << >>
    /\ fnArgs.fn = "drawStars"
    /\ fnResult' = << [alpha |-> StarAlpha(fnArgs.star, fnArgs.wave, fnArgs.moon),
                       drawn |-> StarDrawn(fnArgs.star, fnArgs.wave, fnArgs.moon)] >>
    /\ UNCHANGED << engineVars, fnArgs, sinceFrame, host >>

DrawMeteor ==
    /\ fnResult = << >>
    /\ fnArgs.fn = "drawMeteor"
    /\ fnResult' = << [alpha |-> MeteorAlpha(fnArgs.meteor, fnArgs.moon),
                       drawn |-> TRUE] >>
    /\ UNCHANGED << engineVars, fnArgs, sinceFrame, host >>

NextIntensity == BlendConfigs \/ ComputeVisualRate \/ DrawStar \/ DrawMeteor

SpecIntensity == InitIntensity /\ [][NextIntensity]_vars

\* C16: out-of-range intensity inputs are clamped before use: a negative zhr
\* gives the spawn rate of zhr = 0, a moonIllumination outside [0, 100] gives
\* the star and meteor alphas of the clamped value, and lerpConfig with t
\* outside [0, 1] returns what it returns for the clamped t.
C16_SilentlyClamped ==
    (fnResult # << >>)
        => /\ (fnArgs.fn = "visualRate")
                 => fnResult[1] = VisualRate(IF fnArgs.zhr < 0 THEN 0 ELSE fnArgs.zhr)
           /\ (fnArgs.fn = "drawStars")
                 => fnResult[1].alpha
                       = StarAlpha(fnArgs.star, fnArgs.wave,
                                   Clamp(fnArgs.moon, 0, 100 * TDen))
           /\ (fnArgs.fn = "drawMeteor")
                 => fnResult[1].alpha
                       = MeteorAlpha(fnArgs.meteor, Clamp(fnArgs.moon, 0, 100 * TDen))
           /\ (fnArgs.fn = "lerpConfig")
                 => fnResult[1]
                       = lerpConfig(fnArgs.a, fnArgs.b, Clamp(fnArgs.k, 0, TDen))

\* C17: the visual spawn rate computed in render is non-decreasing in zhr
\* over zhr >= 0, whatever the moonIllumination (which it does not read): it
\* is exactly 0 at zhr = 0, positive for a positive zhr, and never below the
\* rate of a smaller zhr.
C17_RateMonotonic ==
    (fnResult # << >> /\ fnArgs.fn = "visualRate" /\ fnArgs.zhr >= 0)
        => /\ (fnArgs.zhr = 0) => fnResult[1] = 0
           /\ (fnArgs.zhr > 0) => fnResult[1] > 0
           /\ \A z \in ZhrSamples :
                 (z >= 0 /\ z <= fnArgs.zhr) => VisualRate(z) <= fnResult[1]

\* the rate was computed for zhr 4800, above those of zhr 0 and zhr 150
C17_Witness ==
    /\ fnResult # << >> /\ fnArgs.fn = "visualRate"
    /\ fnArgs.zhr = 4800 * TDen
    /\ fnResult[1] > VisualRate(150 * TDen)
    /\ VisualRate(150 * TDen) > VisualRate(0)

\* C18: for a star and for a meteor, the alpha rendered at moonIllumination
\* 100 is strictly less than the alpha rendered at moonIllumination 0 with
\* the same brightness or opacity, twinkle phase and life, and it is
\* strictly positive: the element is still drawn.
C18_MoonDimmingBound ==
    (fnResult # << >> /\ fnArgs.fn \in {"drawStars", "drawMeteor"}
       /\ fnArgs.moon = 100 * TDen)
        => /\ fnResult[1].alpha > 0
           /\ fnResult[1].drawn
           /\ (fnArgs.fn = "drawStars")
                 => fnResult[1].alpha < StarAlpha(fnArgs.star, fnArgs.wave, 0)
           /\ (fnArgs.fn = "drawMeteor")
                 => fnResult[1].alpha < MeteorAlpha(fnArgs.meteor, 0)

----------------------------------------------------------------------------
(* SpecSpawn: a shower rendered at uneven frame intervals, up to 100 ms *)

SpawnConfigs == { [BaseConfig EXCEPT !.zhr = z] : z \in {150 * TDen, 4800 * TDen} }

\* time between two frame callbacks: 16, 32, 50, 100 ms
SpawnDeltas == { Ms(16), Ms(32), Ms(50), Ms(100) }

InitSpawn ==
    /\ \E cfg \in SpawnConfigs : Constructed(cfg)
    /\ fnArgs = << >> /\ fnResult = << >> /\ sinceFrame = << >> /\ host = << >>

\* the spawn count does not depend on the stars: one outcome of their draws
SpawnSetSize ==
    /\ sizeCalls = 0
    /\ \E population \in { p \in StarPopulations : p[1].x = 10 },
          n \in { n \in NebulaSamples : n.count = 2 } :
          setSize(400, 400, population, n)
    /\ UNCHANGED auxVars

SpawnFrame ==
    /\ \E d \in SpawnDeltas :
          /\ clock + d <= MaxSpawnClock
          /\ \E rnd \in Draws(clock + d, ShowerSamples) : render(clock + d, rnd)
    /\ UNCHANGED auxVars

NextSpawn == SpawnSetSize \/ SpawnFrame

SpecSpawn == InitSpawn /\ [][NextSpawn]_vars

\* the expected count accumulated so far, times AccOne: the meteors spawned
\* plus the fraction left in the accumulator
Accumulated == spawned * AccOne + spawnAccumulator

\* C19 as stated: every frame after the first adds the spawn rate times the
\* time elapsed since the previous timestamp to the accumulated count, whose
\* floor is the number of meteors spawned, so that the total does not depend
\* on how the time is divided into frames.
C19_FloorOfElapsedSum ==
    [][ (clock' # clock /\ width # 0 /\ height # 0 /\ lastTime # 0)
        => /\ Accumulated' - Accumulated
                 = VisualRate(config.zhr) * (clock' - lastTime)
           /\ spawnAccumulator' >= 0 /\ spawnAccumulator' < AccOne ]_vars

\* C19 amended: every frame on a sized surface adds the spawn rate times the
\* frame's dt (16 ms for the first frame, the elapsed time capped at 50 ms
\* for the others) to the accumulated count, and the number of meteors
\* spawned is the floor of that count: one spawn per integer crossed.
C19_FloorOfCappedSum ==
    [][ (clock' # clock /\ width # 0 /\ height # 0)
        => /\ Accumulated' - Accumulated
                 = VisualRate(config.zhr)
                      * (IF lastTime = 0 THEN Ms(16)
                         ELSE Min(clock' - lastTime, Ms(50)))
           /\ spawnAccumulator' >= 0 /\ spawnAccumulator' < AccOne ]_vars

\* frames at 16 ms and 116 ms: the second one counted for 50 ms, not 100 ms,
\* and the accumulator emitted two meteors
C19_Witness ==
    /\ lastTime = Ms(116) /\ config.zhr = 4800 * TDen
    /\ Accumulated = VisualRate(config.zhr) * (Ms(16) + Ms(50))
    /\ spawned = 2

----------------------------------------------------------------------------
(* The wrap of the hue difference, checked under SpecLerp *)

\* b - a brought into (-180, 180] and into [-180, 180)
WrapUpper(a, b) ==
    LET m == (b - a) % Turn
    IN  IF m > 180 * TDen THEN m - Turn ELSE m

WrapLower(a, b) ==
    LET m == (b - a) % Turn
    IN  IF m >= 180 * TDen THEN m - Turn ELSE m

\* C20 as stated: lerpHue(a, b, t) is wrap360(a + diff * t) with diff the
\* difference b - a wrapped into (-180, 180]: for hues half a turn apart the
\* difference is +180, and lerpHue(0, 180, 0.5) = 90.
C20_DiffHalfOpenAbove ==
    (fnResult # << >> /\ fnArgs.fn = "lerpHue")
        => /\ HueDiff(fnArgs.a, fnArgs.b) = WrapUpper(fnArgs.a, fnArgs.b)
           /\ HueDiff(fnArgs.a, fnArgs.b) # 0 - 180 * TDen
           /\ fnResult[1]
                 = (fnArgs.a + (WrapUpper(fnArgs.a, fnArgs.b) * fnArgs.k) \div TDen) % Turn
           /\ (fnArgs.a = 0 /\ fnArgs.b = 180 * TDen /\ 2 * fnArgs.k = TDen)
                 => fnResult[1] = 90 * TDen

\* C20 amended: lerpHue(a, b, t) is wrap360(a + diff * t) with diff the
\* difference b - a wrapped into [-180, 180): for hues half a turn apart the
\* difference is -180 and never +180, and lerpHue(0, 180, 0.5) = 270.
C20_DiffHalfOpenBelow ==
    (fnResult # << >> /\ fnArgs.fn = "lerpHue")
        => /\ HueDiff(fnArgs.a, fnArgs.b) = WrapLower(fnArgs.a, fnArgs.b)
           /\ HueDiff(fnArgs.a, fnArgs.b) # 180 * TDen
           /\ fnResult[1]
                 = (fnArgs.a + (WrapLower(fnArgs.a, fnArgs.b) * fnArgs.k) \div TDen) % Turn
           /\ (fnArgs.a = 0 /\ fnArgs.b = 180 * TDen /\ 2 * fnArgs.k = TDen)
                 => fnResult[1] = 270 * TDen

\* lerpHue(0, 180, 0.5) returned 270
C20_Witness ==
    /\ fnResult = << 270 * TDen >> /\ fnArgs.fn = "lerpHue"
    /\ fnArgs.a = 0 /\ fnArgs.b = 180 * TDen /\ 2 * fnArgs.k = TDen

----------------------------------------------------------------------------
(* SpecParallax: a quiet sky whose mouse target jumps between two corners *)

\* px = -mx * maxShift * depth with mx = (mouseX - 0.5) * 2 and maxShift = 15,
\* times MouseOne * 100 (depth is in percent); the same for py with mouseY
Parallax(star, m) == (0 - (2 * m - MouseOne)) * 15 * star.depth

InitParallax ==
    /\ Constructed([BaseConfig EXCEPT !.zhr = 0])
    /\ fnArgs = << >> /\ fnResult = << >> /\ sinceFrame = << >> /\ host = << >>

ParallaxSetSize ==
    /\ sizeCalls = 0
    /\ \E population \in StarPopulations, n \in { n \in NebulaSamples : n.count = 2 } :
          setSize(400, 400, population, n)
    /\ UNCHANGED auxVars

ParallaxSetMouse ==
    /\ mouseCalls < MaxParallaxCalls
    /\ \E p \in MailPoints : setMouse(p[1], p[2])
    /\ UNCHANGED auxVars

ParallaxFrame ==
    /\ activated
    /\ clock + Ms(50) <= MaxParallaxFrames * Ms(50)
    /\ \E rnd \in Draws(clock + Ms(50), MeteorSamples) : render(clock + Ms(50), rnd)
    /\ UNCHANGED auxVars

NextParallax == ParallaxSetSize \/ ParallaxSetMouse \/ ParallaxFrame

SpecParallax == InitParallax /\ [][NextParallax]_vars

\* C21: with mouse targets in [0, 1] and non-decreasing timestamps the
\* smoothed mouse position stays in [0, 1], so the parallax offset of every
\* star drawn is at most 15 pixels times its depth on each axis, hence at
\* most 15 pixels.
C21_ParallaxCapped ==
    /\ mouseX >= 0 /\ mouseX <= MouseOne
    /\ mouseY >= 0 /\ mouseY <= MouseOne
    /\ \A i \in 1..Len(canvas.stars) :
          LET star == canvas.stars[i]
          IN  /\ Abs(Parallax(star, mouseX)) <= 15 * star.depth * MouseOne
              /\ Abs(Parallax(star, mouseY)) <= 15 * star.depth * MouseOne
              /\ Abs(Parallax(star, mouseX)) <= 15 * 100 * MouseOne
              /\ Abs(Parallax(star, mouseY)) <= 15 * 100 * MouseOne

\* the smoothed position has come within 1% of the corner (0, 1): a star is
\* drawn with more than 98% of its largest offset on both axes
C21_Witness ==
    /\ mouseTargetX = 0 /\ mouseTargetY = MouseOne
    /\ mouseX < MouseOne \div 100 /\ mouseY > MouseOne - MouseOne \div 100
    /\ \E i \in 1..Len(canvas.stars) :
          /\ canvas.stars[i].depth > 0
          /\ 100 * Parallax(canvas.stars[i], mouseX)
                > 98 * 15 * canvas.stars[i].depth * MouseOne
          /\ 100 * Parallax(canvas.stars[i], mouseY)
                < 0 - 98 * 15 * canvas.stars[i].depth * MouseOne

----------------------------------------------------------------------------
(* SpecSpawnPoint: the resampling loop of spawnMeteor on ten drawn samples *)

\* the number of attempts the do/while loop makes when Math.random() yields
\* the samples draws[1], draws[2], ... in turn
Attempts(cfg, w, h, draws) ==
    CHOOSE i \in 1..10 :
        /\ Accepted(cfg, w, h, draws[i], i)
        /\ \A j \in 1..(i - 1) : ~Accepted(cfg, w, h, draws[j], j)

\* distance of a sample from the radiant, in sub-pixel units
RadiantDist(cfg, w, h, s) ==
    Hypot(SamplePx(s, w, h)[1] - RadiantPx(cfg, w, h)[1],
          SamplePx(s, w, h)[2] - RadiantPx(cfg, w, h)[2])

\* radiants at the right edge and in the middle of the surface
SpawnPointConfigs ==
    { [BaseConfig EXCEPT !.radiantX = rx] : rx \in {TDen \div 2, TDen} }

\* positions in eighths of the surface, on the horizontal of the radiant
SpawnPointSamples ==
    { [ux |-> u, uy |-> 4, speedRoll |-> 1, lifeRoll |-> 0] : u \in {4, 7} }

SpawnPointSizes == { <<400, 400>>, <<200, 400>> }

InitSpawnPoint ==
    /\ Constructed(BaseConfig)
    /\ fnResult = << >> /\ sinceFrame = << >> /\ host = << >>
    /\ \E cfg \in SpawnPointConfigs, size \in SpawnPointSizes,
          draws \in [1..10 -> SpawnPointSamples] :
          fnArgs = [fn |-> "spawnMeteor", cfg |-> cfg,
                    w |-> size[1], h |-> size[2], draws |-> draws]

SpawnOne ==
    /\ fnResult = << >>
    /\ fnArgs.fn = "spawnMeteor"
    /\ LET n == Attempts(fnArgs.cfg, fnArgs.w, fnArgs.h, fnArgs.draws)
       IN  fnResult' = << [attempts |-> n,
                           meteor |-> spawnMeteor(fnArgs.cfg, fnArgs.w, fnArgs.h,
                                                  fnArgs.draws[n], 1)] >>
    /\ UNCHANGED << engineVars, fnArgs, sinceFrame, host >>

NextSpawnPoint == SpawnOne

SpecSpawnPoint == InitSpawnPoint /\ [][NextSpawnPoint]_vars

\* distance of a new meteor from the radiant (both on one horizontal)
StartDist(m, cfg, w, h) ==
    Hypot(m.x - RadiantPx(cfg, w, h)[1], m.y - RadiantPx(cfg, w, h)[2])

----------------------------------------------------------------------------
(* The calendar of utils.ts: months, new moons, the configs of the year *)

\* a year without February
DaysInMonthNoFebruary == << 31, 0, 31, 30, 31, 30, 31, 31, 30, 31, 30, 31 >>

\* DaysInMonth[1..12] (index 0 of the array is unused)
DaysInMonth == << 31, 28, 31, 30, 31, 30, 31, 31, 30, 31, 30, 31 >>

\* the loop of dayToMonth from month m on
RECURSIVE MonthFrom(_, _)
MonthFrom(remaining, m) ==
    IF m > 12 THEN 12
    ELSE IF remaining <= DaysInMonth[m] THEN m
    ELSE MonthFrom(remaining - DaysInMonth[m], m + 1)

dayToMonth(dayOfYear) == MonthFrom(dayOfYear, 1)

\* NewMoonDays2026[0..13], here indexed from 1
NewMoonDays2026 ==
    << -12, 18, 48, 78, 107, 136, 166, 195, 224, 254, 283, 313, 343, 373 >>

\* the bracket test written >= : a new-moon day closes its own bracket
NextIsAfterOrOn(i, dayOfYear) == NewMoonDays2026[i + 1] >= dayOfYear

\* if (NewMoonDays2026[i + 1] > dayOfYear)
NextIsAfter(i, dayOfYear) == NewMoonDays2026[i + 1] > dayOfYear

\* prevIdx after the loop: the first i whose next new moon is after the day,
\* and the initial value if there is none
PrevIdx(dayOfYear) ==
    LET hits == { i \in 1..(Len(NewMoonDays2026) - 1) : NextIsAfter(i, dayOfYear) }
    IN  IF hits = {} THEN 1
        ELSE CHOOSE i \in hits : \A j \in hits : i <= j

\* (dayOfYear - prev) / (next - prev), as numerator and denominator
moonPhasePosition(dayOfYear) ==
    LET prev == NewMoonDays2026[PrevIdx(dayOfYear)]
        next == NewMoonDays2026[PrevIdx(dayOfYear) + 1]
    IN  [ prev |-> prev, next |-> next,
          num |-> dayOfYear - prev, den |-> next - prev ]

\* for (let day = 1; day <= 365; day++)
DaysInYear == 365

\* buildDayConfig: peakMonth is dayToMonth(dayOfYear) whether a shower is
\* active or not; the other fields come from the shower data and the moon
\* and are those of one active day here
buildDayConfig(dayOfYear) == [BaseConfig EXCEPT !.peakMonth = dayToMonth(dayOfYear)]

\* buildYearConfigs, indexed from 1: configs[day]
buildYearConfigs == [day \in 1..DaysInYear |-> buildDayConfig(day)]

----------------------------------------------------------------------------
(* SpecYear: moonPhasePosition on every day, lerpConfig on every pair of    *)
(* adjacent days                                                            *)

InitYear ==
    /\ Constructed(BaseConfig)
    /\ fnResult = << >> /\ sinceFrame = << >> /\ host = << >>
    /\ \/ \E d \in 1..DaysInYear : fnArgs = [fn |-> "moonPhasePosition", day |-> d]
       \/ \E d \in 1..(DaysInYear - 1), k \in 0..TDen :
             fnArgs = [fn |-> "lerpConfig", day |-> d, k |-> k]

PhaseOfDay ==
    /\ fnResult = << >>
    /\ fnArgs.fn = "moonPhasePosition"
    /\ fnResult' = << moonPhasePosition(fnArgs.day) >>
    /\ UNCHANGED << engineVars, fnArgs, sinceFrame, host >>

BlendDays ==
    /\ fnResult = << >>
    /\ fnArgs.fn = "lerpConfig"
    /\ fnResult' = << lerpConfig(buildYearConfigs[fnArgs.day],
                                 buildYearConfigs[fnArgs.day + 1], fnArgs.k) >>
    /\ UNCHANGED << engineVars, fnArgs, sinceFrame, host >>

NextYear == PhaseOfDay \/ BlendDays

SpecYear == InitYear /\ [][NextYear]_vars

\* C23: for every day of year d in 1..365 moonPhasePosition brackets d
\* between two consecutive new-moon entries prev <= d < next, divides by a
\* positive width and returns a phase in [0, 1); the new-moon table is
\* strictly increasing.
C23_BracketNeverEmpty ==
    /\ \A i \in 1..(Len(NewMoonDays2026) - 1) :
          NewMoonDays2026[i] < NewMoonDays2026[i + 1]
    /\ (fnResult # << >> /\ fnArgs.fn = "moonPhasePosition")
          => /\ \E i \in 1..(Len(NewMoonDays2026) - 1) :
                   /\ fnResult[1].prev = NewMoonDays2026[i]
                   /\ fnResult[1].next = NewMoonDays2026[i + 1]
             /\ fnResult[1].prev <= fnArgs.day /\ fnArgs.day < fnResult[1].next
             /\ fnResult[1].den > 0
             /\ fnResult[1].num >= 0 /\ fnResult[1].num < fnResult[1].den

\* the phase of day 18, a new-moon day, is 0 in the bracket that starts there
C23_Witness ==
    /\ fnResult # << >> /\ fnArgs.fn = "moonPhasePosition"
    /\ fnArgs.day = 18
    /\ fnResult[1].prev = 18 /\ fnResult[1].next = 48 /\ fnResult[1].num = 0

\* C30: two adjacent days of the year have peak months that are equal or
\* differ by one, the months run from 1 on day 1 to 12 on the last day, and
\* for every adjacent pair and every t in [0, 1] the peakMonth of the blend
\* is one of the two endpoint months and does not decrease as t grows.
C30_MonthsOfAdjacentDays ==
    /\ buildYearConfigs[1].peakMonth = 1
    /\ buildYearConfigs[DaysInYear].peakMonth = 12
    /\ \A d \in 1..(DaysInYear - 1) :
          buildYearConfigs[d + 1].peakMonth - buildYearConfigs[d].peakMonth \in {0, 1}
    /\ (fnResult # << >> /\ fnArgs.fn = "lerpConfig")
          => LET a == buildYearConfigs[fnArgs.day]
                 b == buildYearConfigs[fnArgs.day + 1]
             IN  /\ fnResult[1].peakMonth \in {a.peakMonth, b.peakMonth}
                 /\ fnArgs.k > 0 =>
                       lerpConfig(a, b, fnArgs.k - 1).peakMonth <= fnResult[1].peakMonth

\* half way from 31 January to 1 February the blend is already in February
C30_Witness ==
    /\ fnResult # << >> /\ fnArgs.fn = "lerpConfig"
    /\ fnArgs.day = 31 /\ 2 * fnArgs.k = TDen
    /\ buildYearConfigs[31].peakMonth = 1
    /\ fnResult[1].peakMonth = 2

----------------------------------------------------------------------------
(* SpecHost: the effect of ScrollDrivenCanvas around one engine: mount,     *)
(* window events, the frame loop, unmount                                   *)

\* frames the loop runs
MaxHostFrames == 3
\* longest config array
MaxConfigsLen == 3

\* the configs prop: quiet days that differ in month and moon
ScrollConfigs ==
    [i \in 0..(MaxConfigsLen - 1) |->
        [BaseConfig EXCEPT !.zhr = 0, !.peakMonth = i + 1,
                           !.moonIllumination = 20 * i * TDen]]

\* progressRef.current, times TDen: from one day before the first config to
\* one day after the last possible one
ProgressSamples == (0 - TDen)..(MaxConfigsLen * TDen)

Max(a, b) == IF a > b THEN a ELSE b

\* Math.ceil of num / den
MathCeil(num, den) == (num + den - 1) \div den

\* Math.floor of num / den
MathFloor(num, den) == num \div den

\* the body of loop down to the choice of the config, for progress p (times
\* TDen) and an array of length len
LoopBlend(p, len) ==
    LET maxIdx == len - 1
        clamped == Max(0, Min(maxIdx * TDen, p))
        floor == MathFloor(clamped, TDen)
        ceiling == Min(floor + 1, maxIdx)
        frac == clamped - floor * TDen
    IN  [ p |-> p, floor |-> floor, ceiling |-> ceiling, frac |-> frac,
          lerped |-> floor # ceiling,
          interpolated |-> IF floor = ceiling THEN ScrollConfigs[floor]
                           ELSE lerpConfig(ScrollConfigs[floor],
                                           ScrollConfigs[ceiling], frac) ]

\* the effect has constructed the engine from configs[0] and is about to
\* call resize(); surface tells whether canvas.getContext("2d") succeeds
InitHost ==
    /\ Constructed(ScrollConfigs[0])
    /\ fnArgs = << >> /\ fnResult = << >> /\ sinceFrame = << >>
    /\ \E len \in 1..MaxConfigsLen, s \in BOOLEAN :
          host = [ status |-> "mounting", pc |-> "idle", length |-> len,
                   surface |-> s, resizeListener |-> FALSE,
                   mouseListener |-> FALSE, rafPending |-> FALSE,
                   cleanup |-> FALSE, blend |-> << >>, lateCalls |-> 0 ]

\* the rest of the effect: resize(), the two listeners, getContext, and
\* either the early return or the first requestAnimationFrame and the
\* cleanup function
Mount ==
    /\ host.status = "mounting"
    /\ \E population \in { q \in StarPopulations : q[1].x = 10 },
          n \in { n \in NebulaSamples : n.count = 2 } :
          setSize(400, 400, population, n)
    /\ host' = [host EXCEPT !.status = "mounted",
                            !.resizeListener = TRUE, !.mouseListener = TRUE,
                            !.rafPending = host.surface,
                            !.cleanup = host.surface]
    /\ UNCHANGED << fnArgs, fnResult, sinceFrame >>

\* the canvas gets its drawing surface
SurfaceAttached ==
    /\ host.status = "mounted" /\ ~host.surface
    /\ host' = [host EXCEPT !.surface = TRUE]
    /\ UNCHANGED << engineVars, fnArgs, fnResult, sinceFrame >>

\* a resize event of the window, delivered to the listener if it is there
HostResize ==
    /\ host.resizeListener /\ host.pc = "idle"
    /\ host.status # "mounting"
    /\ sizeCalls < MaxSizeCalls
    /\ \E population \in { q \in StarPopulations : q[1].x = 10 },
          n \in { n \in NebulaSamples : n.count = 2 } :
          setSize(200, 400, population, n)
    /\ host' = [host EXCEPT !.lateCalls =
                   IF host.status = "unmounted" THEN @ + 1 ELSE @]
    /\ UNCHANGED << fnArgs, fnResult, sinceFrame >>

\* a mousemove event of the window
HostMouseMove ==
    /\ host.mouseListener /\ host.pc = "idle"
    /\ mouseCalls < MaxMouseCalls
    /\ \E p \in MailPoints : setMouse(p[1], p[2])
    /\ UNCHANGED auxVars

\* the frame callback down to engine.updateConfig(interpolated)
LoopUpdate ==
    /\ host.rafPending /\ host.pc = "idle"
    /\ clock + Ms(16) <= MaxHostFrames * Ms(16)
    /\ \E p \in ProgressSamples, n \in { n \in NebulaSamples : n.count = 2 } :
          /\ updateConfig(LoopBlend(p, host.length).interpolated, n)
          /\ host' = [host EXCEPT !.pc = "render", !.rafPending = FALSE,
                                  !.blend = LoopBlend(p, host.length)]
    /\ UNCHANGED << fnArgs, fnResult, sinceFrame >>

\* the rest of the frame callback: engine.render and the next request
LoopRender ==
    /\ host.pc = "render"
    /\ \E rnd \in Draws(clock + Ms(16), MeteorSamples) : render(clock + Ms(16), rnd)
    /\ host' = [host EXCEPT !.pc = "idle", !.rafPending = TRUE,
                            !.lateCalls =
                                IF host.status = "unmounted" THEN @ + 1 ELSE @]
    /\ UNCHANGED << fnArgs, fnResult, sinceFrame >>

\* the component unmounts: React runs the cleanup function if the effect
\* returned one
Unmount ==
    /\ host.status = "mounted" /\ host.pc = "idle"
    /\ host' = IF host.cleanup
               THEN [host EXCEPT !.status = "unmounted", !.rafPending = FALSE,
                                 !.resizeListener = FALSE,
                                 !.mouseListener = FALSE]
               ELSE [host EXCEPT !.status = "unmounted"]
    /\ UNCHANGED << engineVars, fnArgs, fnResult, sinceFrame >>

NextHost ==
    \/ Mount \/ SurfaceAttached \/ HostResize \/ HostMouseMove
    \/ LoopUpdate \/ LoopRender \/ Unmount

SpecHost == InitHost /\ [][NextHost]_vars

\* C29: in the frame loop, for every scroll progress p, also negative or
\* beyond the last index, and every non-empty config array, floor and
\* ceiling are within 0..length-1 with ceiling equal to floor or floor + 1,
\* the blend factor is in [0, 1), and the config given to updateConfig is
\* configs[floor] itself when floor equals ceiling.
C29_IndicesInRange ==
    host.blend # << >> =>
        /\ host.blend.floor \in 0..(host.length - 1)
        /\ host.blend.ceiling \in 0..(host.length - 1)
        /\ host.blend.ceiling \in {host.blend.floor, host.blend.floor + 1}
        /\ host.blend.frac >= 0 /\ host.blend.frac < TDen
        /\ host.blend.floor = host.blend.ceiling
              => host.blend.interpolated = ScrollConfigs[host.blend.floor]
        /\ host.pc = "render" => config = host.blend.interpolated

\* progress 1.5 of three configs: the loop blends configs[1] and configs[2]
\* half way and hands the blend to the engine
C29_Witness ==
    /\ host.blend # << >> /\ host.pc = "render"
    /\ host.length = 3 /\ host.blend.p = TDen + TDen \div 2
    /\ host.blend.floor = 1 /\ host.blend.ceiling = 2
    /\ 2 * host.blend.frac = TDen
    /\ config.peakMonth = 3 /\ config.moonIllumination = 30 * TDen

\* C24: when the 2D drawing surface cannot be acquired the host skips the
\* frame and retries on the next tick: while the component is mounted the
\* frame loop keeps running, so that once the surface can be acquired a
\* frame callback is pending or running and engine.render is called again.
C24_LoopKeepsRunning ==
    (host.status = "mounted" /\ host.surface)
        => (host.rafPending \/ host.pc = "render")

\* C25: after the component has unmounted, on every path through the effect,
\* the resize and mousemove listeners are removed, no animation-frame
\* callback is pending, and engine.render and engine.setSize are not called
\* again.
C25_TornDownAfterUnmount ==
    host.status = "unmounted"
        => /\ ~host.resizeListener /\ ~host.mouseListener
           /\ ~host.rafPending
           /\ host.lateCalls = 0

----------------------------------------------------------------------------
(* SpecConfig: updateConfig on a running engine, and the objects the host   *)
(* handed to the constructor and to updateConfig, which the host may change *)
(* afterwards                                                               *)

\* frames of 16 ms
MaxCfgFrames == 4
\* updateConfig calls
MaxCfgCalls == 1
\* changes the host makes to an object it has passed
MaxMutations == 1

\* arguments of updateConfig
CfgPartials ==
    { [peakMonth |-> 2], [zhr |-> 150 * TDen],
      [zhr |-> 0, moonIllumination |-> 50 * TDen],
      [colorVariance |-> Undefined] }

\* assignments the host makes to a field of an object it has passed
CfgEdits == { [zhr |-> 0], [peakMonth |-> 7] }

\* this.config = config: the engine keeps the object it was given
ConfigIsArgumentKept == TRUE

\* this.config = { ...config }: the engine's config is a new object and not
\* the constructor's argument
ConfigIsArgument == FALSE

InitConfig ==
    /\ Constructed([BaseConfig EXCEPT !.zhr = 4800 * TDen])
    /\ fnArgs = << >> /\ fnResult = << >> /\ sinceFrame = << >>
    /\ host = [ ctorArg |-> [BaseConfig EXCEPT !.zhr = 4800 * TDen],
                lastArg |-> << >>, mutations |-> 0 ]

CfgSetSize ==
    /\ sizeCalls = 0
    /\ \E population \in { p \in StarPopulations : p[1].x = 10 },
          n \in { n \in NebulaSamples : n.count = 2 } :
          setSize(400, 400, population, n)
    /\ UNCHANGED auxVars

CfgSetMouse ==
    /\ mouseCalls < MaxMouseCalls
    /\ \E p \in MousePoints : setMouse(p[1], p[2])
    /\ UNCHANGED auxVars

CfgFrame ==
    /\ activated
    /\ clock + Ms(16) <= MaxCfgFrames * Ms(16)
    /\ \E rnd \in Draws(clock + Ms(16), ShowerSamples) : render(clock + Ms(16), rnd)
    /\ UNCHANGED auxVars

\* Object.assign copies the values of partial; partial itself is not kept
CfgUpdate ==
    /\ configCalls < MaxCfgCalls
    /\ \E partial \in CfgPartials, n \in { n \in NebulaSamples : n.count = 2 } :
          /\ updateConfig(partial, n)
          /\ host' = [host EXCEPT !.lastArg = partial]
    /\ UNCHANGED << fnArgs, fnResult, sinceFrame >>

\* the host assigns to a field of the object it passed to the constructor or
\* of the one it passed to updateConfig last
MutateArgument ==
    /\ host.mutations < MaxMutations
    /\ \E which \in {"ctorArg", "lastArg"}, edit \in CfgEdits :
          /\ host[which] # << >>
          /\ host' = [host EXCEPT ![which] = Assign(@, edit), !.mutations = @ + 1]
          /\ config' = IF which = "ctorArg" /\ ConfigIsArgument
                       THEN Assign(config, edit) ELSE config
    /\ UNCHANGED << width, height, lastTime, mouseTargetX, mouseTargetY,
                    mouseX, mouseY, stars, nebulae, meteors, starTextures,
                    spawnAccumulator, clock, canvas, retired, starGens,
                    nebulaGens, textureBuilds, spawned, sizeCalls, configCalls,
                    mouseCalls, activated, prevSize, fnArgs, fnResult,
                    sinceFrame >>

NextConfig == CfgSetSize \/ CfgSetMouse \/ CfgFrame \/ CfgUpdate \/ MutateArgument

SpecConfig == InitConfig /\ [][NextConfig]_vars

----------------------------------------------------------------------------
(* SpecAccumulator: frames at uneven intervals while the host changes the   *)
(* rate, to negative and zero values as well                                *)

\* last timestamp, in ms
MaxAccMs == 100
\* updateConfig calls
MaxAccCalls == 2

\* zhr and moonIllumination handed to updateConfig
AccPartials ==
    { [zhr |-> z * TDen, moonIllumination |-> m * TDen] :
         z \in {-150, 0, 150, 4800, 36450}, m \in {0, 100} }

\* time between two frame callbacks: the same timestamp again, 16, 50, 100 ms
AccDeltas == { 0, Ms(16), Ms(50), Ms(100) }

\* one outcome of the draws of spawnMeteor
AccSamples == { [ux |-> 4, uy |-> 4, speedRoll |-> 1, lifeRoll |-> 0] }

InitAccumulator ==
    /\ Constructed(BaseConfig)
    /\ fnArgs = << >> /\ fnResult = << >> /\ host = << >>
    /\ sinceFrame = [zhr |-> 0, frames |-> 0]

AccSetSize ==
    /\ sizeCalls = 0
    /\ \E population \in { p \in StarPopulations : p[1].x = 10 },
          n \in { n \in NebulaSamples : n.count = 2 } :
          setSize(400, 400, population, n)
    /\ UNCHANGED auxVars

AccUpdateConfig ==
    /\ configCalls < MaxAccCalls
    /\ \E partial \in AccPartials, n \in { n \in NebulaSamples : n.count = 2 } :
          updateConfig(partial, n)
    /\ UNCHANGED auxVars

\* a frame callback; sinceFrame keeps the zhr the frame ran with
AccFrame ==
    /\ \E d \in AccDeltas :
          /\ clock + d > 0
          /\ clock + d <= Ms(MaxAccMs)
          /\ \E rnd \in Draws(clock + d, AccSamples) : render(clock + d, rnd)
    /\ sinceFrame' = [zhr |-> config.zhr,
                      frames |-> IF width = 0 \/ height = 0 THEN sinceFrame.frames
                                 ELSE 1]
    /\ UNCHANGED << fnArgs, fnResult, host >>

NextAccumulator == AccSetSize \/ AccUpdateConfig \/ AccFrame

SpecAccumulator == InitAccumulator /\ [][NextAccumulator]_vars

\* C26: after every render call, for any sequence of updateConfig and render
\* calls with zhr of any value, moonIllumination in [0, 100] and
\* non-decreasing timestamps, 0 <= spawnAccumulator < 1.
C26_AccumulatorInUnitInterval ==
    /\ spawnAccumulator >= 0
    /\ spawnAccumulator < AccOne

\* a frame that ran with a negative zhr on a sized surface, after frames
\* that spawned meteors: the fraction accumulated before is still there
C26_Witness ==
    /\ sinceFrame.frames = 1 /\ sinceFrame.zhr < 0
    /\ spawned > 1
    /\ spawnAccumulator > 0 /\ spawnAccumulator < AccOne

----------------------------------------------------------------------------
(* SpecRetire: a frame loop that keeps running, one frame every 50 ms, with *)
(* resizes and config updates in between; the loop is fair, the events are  *)
(* not                                                                      *)

\* frames on a sized surface during which meteors are followed and events
\* happen
RetireWindow == 6
\* frames the loop delivers while the surface has no size
MaxIdleFrames == 2
\* setSize and updateConfig calls
MaxRetireSizeCalls == 3
MaxRetireConfigCalls == 1
\* meteors followed
MaxRetireIds == 2

\* frames of 50 ms after which life > maxLife for the longest maxLife
LifeFrames == (90 * Ms(16)) \div Ms(50) + 1

RetireSizes == { <<0, 0>>, <<400, 400>>, <<200, 400>> }

RetirePartials ==
    { [zhr |-> 0], [zhr |-> 4800 * TDen], [peakMonth |-> 2],
      [velocityKmPerSec |-> 20 * TDen] }

\* sinceFrame counts the frames drawn and the frames skipped at zero size
InitRetire ==
    /\ Constructed(BaseConfig)
    /\ fnArgs = << >> /\ fnResult = << >> /\ host = << >>
    /\ sinceFrame = [drawn |-> 0, idle |-> 0]

RetireSetSize ==
    /\ sizeCalls < MaxRetireSizeCalls
    /\ sinceFrame.drawn <= RetireWindow
    /\ \E s \in RetireSizes,
          population \in { p \in StarPopulations : p[1].x = 10 },
          n \in { n \in NebulaSamples : n.count = 2 } :
          /\ sizeCalls = 0 => s = <<400, 400>>
          /\ s # << width, height >>
          /\ setSize(s[1], s[2], population, n)
    /\ UNCHANGED auxVars

RetireUpdateConfig ==
    /\ configCalls < MaxRetireConfigCalls
    /\ sinceFrame.drawn <= RetireWindow
    /\ \E partial \in RetirePartials, n \in { n \in NebulaSamples : n.count = 2 } :
          updateConfig(partial, n)
    /\ UNCHANGED auxVars

\* the frame callback, 50 ms after the previous one; at zero size render
\* returns at once and only the timestamp differs from one call to the next,
\* so MaxIdleFrames such calls stand for any number of them
RetireFrame ==
    /\ activated
    /\ IF width = 0 \/ height = 0
       THEN sinceFrame.idle < MaxIdleFrames
       ELSE sinceFrame.drawn < RetireWindow + LifeFrames
    /\ \E rnd \in Draws(clock + Ms(50), AccSamples) : render(clock + Ms(50), rnd)
    /\ sinceFrame' = IF width = 0 \/ height = 0
                     THEN [sinceFrame EXCEPT !.idle = @ + 1]
                     ELSE [sinceFrame EXCEPT !.drawn = @ + 1]
    /\ UNCHANGED << fnArgs, fnResult, host >>

NextRetire == RetireSetSize \/ RetireUpdateConfig \/ RetireFrame

\* requestAnimationFrame(loop) at the end of every callback: the frame
\* callback keeps being called
SpecRetire == InitRetire /\ [][NextRetire]_vars /\ WF_vars(RetireFrame)

Live(id) == \E i \in 1..Len(meteors) : meteors[i].id = id

\* C27: every spawned meteor is eventually retired: if render keeps being
\* called with increasing timestamps, each live meteor is removed from the
\* collection after finitely many frames, whatever config updates and
\* resizes happen in between.
C27_EveryMeteorRetired ==
    \A id \in 1..MaxRetireIds :
        (Live(id) /\ sinceFrame.drawn <= RetireWindow) ~> ~Live(id)

====
